---- MODULE Spec2Model ----
\* A model of the statsd client of src/statsd/main.go: the Client (prefix and
\* sender), the SimpleSender transport over a UDP socket, the typed metric
\* operations that funnel into Client.Raw, and the unsynchronised interleaving
\* of Client.SetPrefix with Client.Raw.
\*
\* Strings are sequences of one-character strings, so that formatting and
\* concatenation are computed and a transmitted line can be parsed again.
EXTENDS Integers, Sequences, FiniteSets, TLC

\* ---------------------------------------------------------------- bounds

\* int64 is modelled as a two's complement integer of IntBits bits.
IntBits == 4
\* A sample rate is the rational rate / RateDen; rand.Float32() draws on the
\* same grid, 0 .. RateDen-1 over RateDen, i.e. in [0, 1).
RateDen == 2
\* The number of sockets net.ListenPacket may open in one behaviour.
MaxConns == 1

\* ---------------------------------------------------------------- values

\* The nil error.
Nil == "nil"
\* The error of a write or close on a closed socket (net.ErrClosed).
ErrClosed == "use of closed network connection"
\* An error of the operating system's datagram write.
ErrWrite == "sendto: operation not permitted"
\* errors.New("Wrote no bytes"), main.go line 155.
ErrNoBytes == "Wrote no bytes"
\* The error of net.ResolveUDPAddr on an address it cannot resolve.
ErrResolve == "resolve: missing port in address"
\* The error of net.ListenPacket when no socket can be opened.
ErrListen == "listen: too many open files"

MinInt64 == 0 - 2 ^ (IntBits - 1)
\* The int64 arguments the typed operations are called with.
Int64Vals == {MinInt64, 5}
\* The time.Duration arguments (nanoseconds) of TimingDuration.
Durations == {12500000, 1234567}
\* The metric names.
Stats == {<<"h">>}
\* The preformatted values Raw is called with directly.
RawVals == {<<"7", "|", "h">>}
\* The prefixes given to NewClient and SetPrefix.
Prefixes == {<<>>, <<"a">>, <<"b", "c">>}
\* The addresses given to NewClient.
GoodAddr == "localhost:8125"
BadAddr == "localhost"
Addrs == {GoodAddr, BadAddr}
\* The sample rates (numerators over RateDen): negative, 0, inside (0, 1), 1, above 1.
Rates == {0 - 1, 0, 1, RateDen, RateDen + 1}
\* The draws of rand.Float32() (numerators over RateDen).
Draws == 0 .. (RateDen - 1)

\* ------------------------------------------------------------ formatting

Digits == <<"0", "1", "2", "3", "4", "5", "6", "7", "8", "9">>

RECURSIVE NatStr(_)
\* The decimal digits of a natural number.
NatStr(n) ==
    IF n < 10 THEN <<Digits[n + 1]>>
    ELSE NatStr(n \div 10) \o <<Digits[(n % 10) + 1]>>

RECURSIVE Pow10(_)
Pow10(k) ==
    IF k = 0 THEN 1 ELSE 10 * Pow10(k - 1)

RECURSIVE ZeroPad(_, _)
\* s padded on the left with zeros to width w.
ZeroPad(s, w) ==
    IF Len(s) >= w THEN s ELSE ZeroPad(<<"0">> \o s, w)

\* fmt's %d of an integer.
FmtD(v) ==
    IF v < 0 THEN <<"-">> \o NatStr(0 - v) ELSE NatStr(v)

\* fmt's %+d of an integer: the sign is always written.
FmtPlusD(v) ==
    IF v < 0 THEN <<"-">> \o NatStr(0 - v) ELSE <<"+">> \o NatStr(v)

\* fmt's %.<places>f of the rational num / den: rounded to `places` decimals
\* (no input of the model lies on a rounding tie).
FmtFixed(num, den, places) ==
    LET a == IF num < 0 THEN 0 - num ELSE num
        P == Pow10(places)
        scaled == (a \div den) * P + (2 * (a % den) * P + den) \div (2 * den)
        sign == IF num < 0 THEN <<"-">> ELSE <<>>
    IN  sign \o NatStr(scaled \div P) \o <<".">> \o ZeroPad(NatStr(scaled % P), places)

\* fmt's %f: six decimals.
FmtF(num, den) ==
    FmtFixed(num, den, 6)

\* int64 negation: two's complement, wrapping at the width.
Neg64(v) ==
    (((0 - v) + 2 ^ (IntBits - 1)) % (2 ^ IntBits)) - 2 ^ (IntBits - 1)

\* The part of a line before its first ':' (the whole line if it has none).
RECURSIVE NameSeg(_)
NameSeg(line) ==
    IF line = <<>> \/ Head(line) = ":" THEN <<>>
    ELSE <<Head(line)>> \o NameSeg(Tail(line))

\* The part of a line after its first ':'.
RECURSIVE ValueSeg(_)
ValueSeg(line) ==
    IF line = <<>> THEN <<>>
    ELSE IF Head(line) = ":" THEN Tail(line)
    ELSE ValueSeg(Tail(line))

\* ----------------------------------------------------------------- state

VARIABLES
    client,   \* the *Client the caller holds: nil, or the Client NewClient made
    conns,    \* the sockets opened so far: conns[c] is "open" or "closed"
    last,     \* the latest call: its arguments, what it did, what it returned
    lastSet,  \* the prefix of the latest NewClient or SetPrefix that returned
    failed,   \* whether a Send of the current Client has failed
    pcRaw,    \* concurrent use: where the goroutine inside Raw stands
    loc,      \* concurrent use: the locals of that Raw call
    pcSet,    \* concurrent use: where the goroutine inside SetPrefix stands
    store,    \* concurrent use: the string SetPrefix is storing, and the words left
    seen      \* concurrent use: the values s.prefix held during the Raw call

vars == <<client, conns, last, lastSet, failed,
          pcRaw, loc, pcSet, store, seen>>

concVars == <<pcRaw, loc, pcSet, store, seen>>

\* A Go string value: the two words of its header, a data pointer (modelled by
\* the bytes it points to) and a length.
StringHeader(str) ==
    [data |-> str, len |-> Len(str)]

\* The bytes a string header denotes. A header torn by a racing store may
\* have a length beyond its data; the bytes past the data are arbitrary ("?").
Str(h) ==
    IF h.len <= Len(h.data) THEN SubSeq(h.data, 1, h.len)
    ELSE h.data \o [i \in 1 .. (h.len - Len(h.data)) |-> "?"]

\* A Sender that is no SimpleSender (the sender of no Client).
NoSender == [c |-> 0, ra |-> ""]

\* type Client struct { prefix string; sender Sender }, behind a pointer that
\* may be nil.
NilClient == [isNil |-> TRUE, prefix |-> StringHeader(<<>>), sender |-> NoSender]

\* The result of a datagram write that was not attempted.
NoWrite == [n |-> 0, err |-> Nil]

\* The result of a Send that was not invoked.
NoSend == [n |-> 0, err |-> Nil, writes |-> 0]

\* The record of a call, before anything is known of it.
NoCall ==
    [op |-> "none", arg |-> 0, recvNil |-> FALSE, stat |-> <<>>, value |-> <<>>,
     rate |-> 0, draw |-> 0 - 1, sends |-> 0, data |-> <<>>, w |-> NoWrite,
     send |-> NoSend, closes |-> 0, ret |-> Nil, handleNil |-> FALSE,
     prefix |-> <<>>, seen |-> {}]

MetricOps == {"Inc", "Dec", "Gauge", "GaugeDelta", "Timing", "TimingDuration", "Raw"}

Init ==
    /\ client = NilClient
    /\ conns = <<>>
    /\ last = NoCall
    /\ lastSet = [prefix |-> <<>>, by |-> "none"]
    /\ failed = FALSE
    /\ pcRaw = "idle"
    /\ loc = [stat |-> <<>>, name |-> <<>>, value |-> <<>>, raw |-> <<>>, rate |-> 0, draw |-> 0 - 1]
    /\ pcSet = "idle"
    /\ store = [str |-> <<>>, left |-> {}]
    /\ seen = {}

\* ------------------------------------------------------------- transport

\* The state of socket c; a socket that was never opened cannot be written.
ConnStatus(cs, c) ==
    IF c \in DOMAIN cs THEN cs[c] ELSE "closed"

\* What the operating system may answer to a datagram write on an open
\* socket: all bytes written, an error, both, or nothing written.
OsAnswers == {"written", "error", "written-error", "nothing"}

\* rand.Float32() is called only by a Raw on a Client with rate < 1; where it
\* is not called there is no draw (-1).
DrawsOf(s, rate) ==
    IF s.isNil \/ rate >= RateDen THEN {0 - 1} ELSE Draws

\* The operating system answers only where a write is made.
AnswersOf(s, rate, draw) ==
    IF s.isNil \/ (rate < RateDen /\ draw >= rate) THEN {"nothing"} ELSE OsAnswers

\* The answer `os` to a write of `data`.
OsWrite(os, data) ==
    CASE os = "written" -> [n |-> Len(data), err |-> Nil]
      [] os = "error" -> [n |-> 0, err |-> ErrWrite]
      [] os = "written-error" -> [n |-> Len(data), err |-> ErrWrite]
      [] OTHER -> [n |-> 0, err |-> Nil]

\* (*net.UDPConn).WriteToUDP(data, ra) on socket c, the operating system
\* answering os: a closed socket refuses the write.
WriteToUDP(cs, c, data, os) ==
    IF ConnStatus(cs, c) = "open" THEN os ELSE [n |-> 0, err |-> ErrClosed]

\* Send, were a write of zero bytes taken for a success.
Send_IgnoreZero(w) ==
    IF w.err # Nil THEN [n |-> 0, err |-> w.err, writes |-> 1]
    ELSE [n |-> w.n, err |-> Nil, writes |-> 1]

\* SimpleSender.Send, given the result w of its one WriteToUDP.
Send(w) ==
    IF w.err # Nil THEN [n |-> 0, err |-> w.err, writes |-> 1]
    ELSE IF w.n = 0 THEN [n |-> w.n, err |-> ErrNoBytes, writes |-> 1]
    ELSE [n |-> w.n, err |-> Nil, writes |-> 1]

\* net.ResolveUDPAddr accepts "host:port".
Resolvable(addr) ==
    addr = GoodAddr

\* NewSimpleSender(addr) with the sockets cs open so far; listenOk says whether
\* net.ListenPacket can open a socket. The socket is opened first, the address
\* resolved second.
NewSimpleSender(addr, listenOk, cs) ==
    IF ~listenOk THEN [sender |-> NoSender, err |-> ErrListen, conns |-> cs]
    ELSE LET cs2 == Append(cs, "open")
         IN  IF ~Resolvable(addr)
             THEN [sender |-> NoSender, err |-> ErrResolve, conns |-> cs2]
             ELSE [sender |-> [c |-> Len(cs2), ra |-> addr], err |-> Nil, conns |-> cs2]

\* ---------------------------------------------------------------- client

\* time.Millisecond, in nanoseconds.
Millisecond == 1000000

\* Variants of Raw, for the mutants below: the rest of Raw once the event is
\* selected (format, prefix, send), where `suffix` says whether the rate is
\* appended and `keep` whether Send's error is returned.
RawVariant(s, cs, stat, value, rate, draw, os, suffix, keep) ==
    LET v == IF suffix
             THEN value \o <<"|", "@">> \o FmtF(rate, RateDen)
             ELSE value
        name == IF Str(s.prefix) # <<>>
                THEN Str(s.prefix) \o <<".">> \o stat
                ELSE stat
        data == name \o <<":">> \o v
        w == WriteToUDP(cs, s.sender.c, data, OsWrite(os, data))
        r == Send(w)
    IN  [sends |-> <<data>>,
         ret |-> IF keep /\ r.err # Nil THEN r.err ELSE Nil,
         draw |-> IF rate < RateDen THEN draw ELSE 0 - 1,
         w |-> w, send |-> r]

\* The result of a Raw that returns before it sends.
RawSkip(d) ==
    [sends |-> <<>>, ret |-> Nil, draw |-> d, w |-> NoWrite, send |-> NoSend]

\* Raw, were the nil receiver not tested.
RawResult_NoNilCheck(s, cs, stat, value, rate, draw, os) ==
    IF rate < RateDen /\ ~(draw < rate) THEN RawSkip(draw)
    ELSE RawVariant(s, cs, stat, value, rate, draw, os, rate < RateDen, TRUE)

\* Raw, were the sampling test `draw <= rate`.
RawResult_LeqSampling(s, cs, stat, value, rate, draw, os) ==
    IF s.isNil THEN RawSkip(0 - 1)
    ELSE IF rate < RateDen /\ ~(draw <= rate) THEN RawSkip(draw)
    ELSE RawVariant(s, cs, stat, value, rate, draw, os, rate < RateDen, TRUE)

\* Raw, were the rate appended to every line sent.
RawResult_SuffixAlways(s, cs, stat, value, rate, draw, os) ==
    IF s.isNil THEN RawSkip(0 - 1)
    ELSE IF rate < RateDen /\ ~(draw < rate) THEN RawSkip(draw)
    ELSE RawVariant(s, cs, stat, value, rate, draw, os, TRUE, TRUE)

\* Raw, were the error of Send dropped.
RawResult_SwallowError(s, cs, stat, value, rate, draw, os) ==
    IF s.isNil THEN RawSkip(0 - 1)
    ELSE IF rate < RateDen /\ ~(draw < rate) THEN RawSkip(draw)
    ELSE RawVariant(s, cs, stat, value, rate, draw, os, rate < RateDen, FALSE)

\* What Client.Raw(stat, value, rate) does on receiver s with the sockets cs,
\* rand.Float32() answering draw and the operating system answering os: the
\* byte sequences it passes to Send, in order, and the error it returns.
RawResult(s, cs, stat, value, rate, draw, os) ==
    IF s.isNil
    THEN [sends |-> <<>>, ret |-> Nil, draw |-> 0 - 1, w |-> NoWrite, send |-> NoSend]
    ELSE IF rate < RateDen /\ ~(draw < rate)
    THEN [sends |-> <<>>, ret |-> Nil, draw |-> draw, w |-> NoWrite, send |-> NoSend]
    ELSE LET v == IF rate < RateDen
                  THEN value \o <<"|", "@">> \o FmtF(rate, RateDen)
                  ELSE value
             name == IF Str(s.prefix) # <<>>
                     THEN Str(s.prefix) \o <<".">> \o stat
                     ELSE stat
             data == name \o <<":">> \o v
             w == WriteToUDP(cs, s.sender.c, data, OsWrite(os, data))
             r == Send(w)
         IN  [sends |-> <<data>>,
              ret |-> IF r.err # Nil THEN r.err ELSE Nil,
              draw |-> IF rate < RateDen THEN draw ELSE 0 - 1,
              w |-> w, send |-> r]

\* Raw, were the socket closed when a Send fails.
Raw_CloseOnError(call, s, stat, value, rate, draw, os) ==
    \E r \in {RawResult(s, conns, stat, value, rate, draw, os)} :
        /\ last' = [NoCall EXCEPT !.op = call.op, !.arg = call.arg,
                       !.recvNil = s.isNil, !.stat = stat, !.value = value,
                       !.rate = rate, !.draw = r.draw, !.sends = Len(r.sends),
                       !.data = IF r.sends = <<>> THEN <<>> ELSE r.sends[1],
                       !.w = r.w, !.send = r.send, !.ret = r.ret]
        /\ failed' = (failed \/ r.send.err # Nil)
        /\ conns' = IF r.ret # Nil /\ s.sender.c \in DOMAIN conns
                     THEN [conns EXCEPT ![s.sender.c] = "closed"]
                     ELSE conns
        /\ UNCHANGED <<client, lastSet>>
        /\ UNCHANGED concVars

\* Client.Raw as a step of the program; `call` names the operation the caller
\* invoked and its argument. Raw assigns to no field of the Client.
Raw(call, s, stat, value, rate, draw, os) ==
    \E r \in {RawResult(s, conns, stat, value, rate, draw, os)} :
        /\ last' = [NoCall EXCEPT !.op = call.op, !.arg = call.arg,
                       !.recvNil = s.isNil, !.stat = stat, !.value = value,
                       !.rate = rate, !.draw = r.draw, !.sends = Len(r.sends),
                       !.data = IF r.sends = <<>> THEN <<>> ELSE r.sends[1],
                       !.w = r.w, !.send = r.send, !.ret = r.ret]
        /\ failed' = (failed \/ r.send.err # Nil)
        /\ UNCHANGED <<client, conns, lastSet>>
        /\ UNCHANGED concVars

Inc(call, s, stat, value, rate, draw, os) ==
    Raw(call, s, stat, FmtD(value) \o <<"|", "c">>, rate, draw, os)

Dec(call, s, stat, value, rate, draw, os) ==
    Inc(call, s, stat, Neg64(value), rate, draw, os)

Gauge(call, s, stat, value, rate, draw, os) ==
    Raw(call, s, stat, FmtD(value) \o <<"|", "g">>, rate, draw, os)

GaugeDelta(call, s, stat, value, rate, draw, os) ==
    Raw(call, s, stat, FmtPlusD(value) \o <<"|", "g">>, rate, draw, os)

Timing(call, s, stat, delta, rate, draw, os) ==
    Raw(call, s, stat, FmtD(delta) \o <<"|", "m", "s">>, rate, draw, os)

TimingDuration(call, s, stat, delta, rate, draw, os) ==
    Raw(call, s, stat, FmtFixed(delta, Millisecond, 2) \o <<"|", "m", "s">>, rate, draw, os)

\* SetPrefix, were the new prefix appended to the old one.
SetPrefix_Append(s, prefix) ==
    /\ client' = IF s.isNil THEN client
                 ELSE [client EXCEPT !.prefix = StringHeader(Str(client.prefix) \o prefix)]
    /\ lastSet' = IF s.isNil THEN lastSet ELSE [prefix |-> prefix, by |-> "SetPrefix"]
    /\ last' = [NoCall EXCEPT !.op = "SetPrefix", !.recvNil = s.isNil, !.prefix = prefix]
    /\ UNCHANGED <<conns, failed>>
    /\ UNCHANGED concVars

SetPrefix(s, prefix) ==
    /\ client' = IF s.isNil THEN client
                 ELSE [client EXCEPT !.prefix = StringHeader(prefix)]
    /\ lastSet' = IF s.isNil THEN lastSet ELSE [prefix |-> prefix, by |-> "SetPrefix"]
    /\ last' = [NoCall EXCEPT !.op = "SetPrefix", !.recvNil = s.isNil, !.prefix = prefix]
    /\ UNCHANGED <<conns, failed>>
    /\ UNCHANGED concVars

\* SimpleSender.Close on socket c: net's Close of a closed socket is an error.
SenderClose(cs, c) ==
    IF ConnStatus(cs, c) = "open"
    THEN [conns |-> [cs EXCEPT ![c] = "closed"], err |-> Nil]
    ELSE [conns |-> cs, err |-> ErrClosed]

Close(s) ==
    LET r == SenderClose(conns, s.sender.c)
    IN  /\ conns' = IF s.isNil THEN conns ELSE r.conns
        /\ last' = [NoCall EXCEPT !.op = "Close", !.recvNil = s.isNil,
                       !.closes = IF s.isNil THEN 0 ELSE 1,
                       !.ret = IF s.isNil THEN Nil ELSE r.err]
        /\ UNCHANGED <<client, lastSet, failed>>
        /\ UNCHANGED concVars

NewClient(addr, prefix, listenOk) ==
    LET r == NewSimpleSender(addr, listenOk, conns)
    IN  /\ Len(conns) < MaxConns
        /\ conns' = r.conns
        /\ client' = IF r.err # Nil THEN client
                     ELSE [isNil |-> FALSE, prefix |-> StringHeader(prefix), sender |-> r.sender]
        /\ lastSet' = IF r.err # Nil THEN lastSet ELSE [prefix |-> prefix, by |-> "NewClient"]
        /\ failed' = IF r.err # Nil THEN failed ELSE FALSE
        /\ last' = [NoCall EXCEPT !.op = "NewClient", !.prefix = prefix,
                       !.handleNil = (r.err # Nil), !.ret = r.err]
        /\ UNCHANGED concVars

\* The receivers a call may be made on: a nil *Client, or the Client held.
Receivers == {NilClient, client}

Next ==
    \/ \E a \in Addrs, p \in Prefixes, ok \in BOOLEAN : NewClient(a, p, ok)
    \/ \E s \in Receivers, p \in Prefixes : SetPrefix(s, p)
    \/ \E s \in Receivers : Close(s)
    \/ \E s \in Receivers, st \in Stats, v \in RawVals, r \in Rates :
       \E d \in DrawsOf(s, r) : \E os \in AnswersOf(s, r, d) :
          Raw([op |-> "Raw", arg |-> 0], s, st, v, r, d, os)
    \/ \E s \in Receivers, st \in Stats, v \in Int64Vals, r \in Rates :
       \E d \in DrawsOf(s, r) : \E os \in AnswersOf(s, r, d) :
          Inc([op |-> "Inc", arg |-> v], s, st, v, r, d, os)
    \/ \E s \in Receivers, st \in Stats, v \in Int64Vals, r \in Rates :
       \E d \in DrawsOf(s, r) : \E os \in AnswersOf(s, r, d) :
          Dec([op |-> "Dec", arg |-> v], s, st, v, r, d, os)
    \/ \E s \in Receivers, st \in Stats, v \in Int64Vals, r \in Rates :
       \E d \in DrawsOf(s, r) : \E os \in AnswersOf(s, r, d) :
          Gauge([op |-> "Gauge", arg |-> v], s, st, v, r, d, os)
    \/ \E s \in Receivers, st \in Stats, v \in Int64Vals, r \in Rates :
       \E d \in DrawsOf(s, r) : \E os \in AnswersOf(s, r, d) :
          GaugeDelta([op |-> "GaugeDelta", arg |-> v], s, st, v, r, d, os)
    \/ \E s \in Receivers, st \in Stats, v \in Int64Vals, r \in Rates :
       \E d \in DrawsOf(s, r) : \E os \in AnswersOf(s, r, d) :
          Timing([op |-> "Timing", arg |-> v], s, st, v, r, d, os)
    \/ \E s \in Receivers, st \in Stats, v \in Durations, r \in Rates :
       \E d \in DrawsOf(s, r) : \E os \in AnswersOf(s, r, d) :
          TimingDuration([op |-> "TimingDuration", arg |-> v], s, st, v, r, d, os)

Spec == Init /\ [][Next]_vars

\* ------------------------------------------------------- concurrent use

\* One goroutine calls Raw (directly or through Inc) while another calls
\* SetPrefix on the same Client. Nothing orders the two reads of s.prefix in
\* Raw (the test of line 117, the use of line 118) against the store of line
\* 135, and the store of a string writes the two words of its header one
\* after the other.

\* The rates and the answers of the operating system in concurrent use.
ConcRates == {1, RateDen}
ConcAnswers == {"written", "error"}

\* The Client after NewClient(GoodAddr, prefix) succeeded.
InitConc ==
    /\ \E p \in Prefixes :
          /\ client = [isNil |-> FALSE, prefix |-> StringHeader(p),
                       sender |-> [c |-> 1, ra |-> GoodAddr]]
          /\ lastSet = [prefix |-> p, by |-> "NewClient"]
          /\ last = [NoCall EXCEPT !.op = "NewClient", !.prefix = p]
    /\ conns = <<"open">>
    /\ failed = FALSE
    /\ pcRaw = "idle"
    /\ loc = [stat |-> <<>>, name |-> <<>>, value |-> <<>>, raw |-> <<>>, rate |-> 0, draw |-> 0 - 1]
    /\ pcSet = "idle"
    /\ store = [str |-> <<>>, left |-> {}]
    /\ seen = {}

\* The values s.prefix has held during the Raw call in flight, after a step
\* that leaves the Client as c.
Seen(c) ==
    IF pcRaw = "idle" THEN seen ELSE seen \cup {Str(c.prefix)}

\* Raw, lines 106-115: the nil test and the sampling. A dropped call returns;
\* a selected one goes on to the prefix test with its value formatted.
RawBegin(call, stat, value, rate, draw) ==
    /\ pcRaw = "idle"
    /\ ~client.isNil
    /\ IF rate < RateDen /\ ~(draw < rate)
       THEN /\ last' = [NoCall EXCEPT !.op = call.op, !.arg = call.arg,
                           !.stat = stat, !.value = value, !.rate = rate,
                           !.draw = draw]
            /\ UNCHANGED <<pcRaw, loc, seen>>
       ELSE /\ loc' = [stat |-> stat, name |-> stat, raw |-> value,
                       value |-> IF rate < RateDen
                                 THEN value \o <<"|", "@">> \o FmtF(rate, RateDen)
                                 ELSE value,
                       rate |-> rate,
                       draw |-> IF rate < RateDen THEN draw ELSE 0 - 1]
            /\ pcRaw' = "test"
            /\ seen' = {Str(client.prefix)}
            /\ last' = [NoCall EXCEPT !.op = call.op, !.arg = call.arg]
    /\ UNCHANGED <<client, conns, lastSet, failed, pcSet, store>>

\* Inc, lines 49-50, entering Raw.
IncBegin(call, stat, value, rate, draw) ==
    RawBegin(call, stat, FmtD(value) \o <<"|", "c">>, rate, draw)

\* Raw, line 117: the first read of s.prefix, compared with "".
RawTestPrefix ==
    /\ pcRaw = "test"
    /\ pcRaw' = IF Str(client.prefix) # <<>> THEN "use" ELSE "send"
    /\ UNCHANGED <<client, conns, last, lastSet, failed, loc, pcSet, store, seen>>

\* Raw, line 118: the second read of s.prefix, formatted before the name.
RawUsePrefix ==
    /\ pcRaw = "use"
    /\ loc' = [loc EXCEPT !.stat = Str(client.prefix) \o <<".">> \o loc.stat]
    /\ pcRaw' = "send"
    /\ UNCHANGED <<client, conns, last, lastSet, failed, pcSet, store, seen>>

\* Raw, lines 121-127: the line is built and sent, and Raw returns.
RawSendLine(os) ==
    /\ pcRaw = "send"
    /\ LET data == loc.stat \o <<":">> \o loc.value
           w == WriteToUDP(conns, client.sender.c, data, OsWrite(os, data))
           r == Send(w)
       IN  /\ last' = [last EXCEPT !.stat = loc.name, !.value = loc.raw,
                          !.rate = loc.rate, !.draw = loc.draw, !.sends = 1,
                          !.data = data, !.w = w, !.send = r,
                          !.ret = IF r.err # Nil THEN r.err ELSE Nil,
                          !.seen = seen]
           /\ failed' = (failed \/ r.err # Nil)
    /\ pcRaw' = "idle"
    /\ UNCHANGED <<client, conns, lastSet, loc, pcSet, store, seen>>

\* SetPrefix, lines 132-134: the nil test; the store of line 135 is pending.
SetPrefixBegin(prefix) ==
    /\ pcSet = "idle"
    /\ ~client.isNil
    /\ store' = [str |-> prefix, left |-> {"data", "len"}]
    /\ pcSet' = "store"
    /\ UNCHANGED <<client, conns, last, lastSet, failed, pcRaw, loc, seen>>

\* SetPrefix, line 135: one word of the string header is stored; SetPrefix
\* returns after the second.
SetPrefixStoreWord(word) ==
    /\ pcSet = "store"
    /\ word \in store.left
    /\ client' = IF word = "data"
                 THEN [client EXCEPT !.prefix.data = store.str]
                 ELSE [client EXCEPT !.prefix.len = Len(store.str)]
    /\ store' = [store EXCEPT !.left = store.left \ {word}]
    /\ pcSet' = IF store.left = {word} THEN "idle" ELSE "store"
    /\ lastSet' = IF store.left = {word}
                  THEN [prefix |-> store.str, by |-> "SetPrefix"]
                  ELSE lastSet
    /\ seen' = Seen(client')
    /\ UNCHANGED <<conns, last, failed, pcRaw, loc>>

NextConc ==
    \/ \E st \in Stats, v \in RawVals, r \in ConcRates, d \in Draws :
          RawBegin([op |-> "Raw", arg |-> 0], st, v, r, d)
    \/ \E st \in Stats, v \in Int64Vals, r \in ConcRates, d \in Draws :
          IncBegin([op |-> "Inc", arg |-> v], st, v, r, d)
    \/ RawTestPrefix
    \/ RawUsePrefix
    \/ \E os \in ConcAnswers : RawSendLine(os)
    \/ \E p \in Prefixes : SetPrefixBegin(p)
    \/ \E word \in {"data", "len"} : SetPrefixStoreWord(word)

SpecConc == InitConc /\ [][NextConc]_vars

\* ---------------------------------------------------------------- claims

\* The latest call was a metric operation (a typed operation or Raw).
IsMetric(l) ==
    l.op \in MetricOps

\* Whether sampling selects a call with this rate and draw for transmission.
Selected(l) ==
    l.rate >= RateDen \/ (l.draw >= 0 /\ l.draw < l.rate)

\* Whether sequence s ends with sequence t.
EndsWith(s, t) ==
    /\ Len(t) <= Len(s)
    /\ SubSeq(s, Len(s) - Len(t) + 1, Len(s)) = t

\* C1: every operation on a nil Client (the seven metric operations,
\* SetPrefix, Close) returns no error, invokes no Send, no write and no
\* Close, and leaves the Client held and every socket as they were.
C1_NilClientNoop ==
    [][last'.recvNil =>
          /\ last'.op \in MetricOps \cup {"SetPrefix", "Close"}
          /\ last'.ret = Nil
          /\ last'.sends = 0
          /\ last'.send.writes = 0
          /\ last'.closes = 0
          /\ client' = client
          /\ conns' = conns]_vars

\* C1 witness: Close was called on a nil Client while a Client with an open
\* socket exists; the socket is still open.
C1_Witness ==
    /\ last.recvNil
    /\ last.op = "Close"
    /\ ~client.isNil
    /\ ConnStatus(conns, client.sender.c) = "open"

\* C2 (as claimed): a NewClient that fails with the resolution error has
\* opened no socket, and returns no handle.
C2_NoSocketOnResolveError ==
    [][(last'.op = "NewClient" /\ last'.ret = ErrResolve) =>
          /\ Len(conns') = Len(conns)
          /\ last'.handleNil]_vars

\* C3: a metric call on a Client invokes Send once if rate >= 1 or the draw
\* is below the rate, and not at all otherwise, and then returns no error;
\* every Send makes one write.
C3_OneSendIffSelected ==
    (IsMetric(last) /\ ~last.recvNil) =>
        /\ last.sends = (IF Selected(last) THEN 1 ELSE 0)
        /\ last.send.writes = last.sends
        /\ (~Selected(last) => last.ret = Nil)
        /\ (last.rate >= RateDen => last.sends = 1)
        /\ (last.rate = 0 => last.sends = 0)

\* C3 witness: a call with a rate below 1 was selected and sent once.
C3_Witness ==
    /\ IsMetric(last)
    /\ ~last.recvNil
    /\ last.rate < RateDen
    /\ last.draw < last.rate
    /\ last.sends = 1

\* C4: the bytes passed to Send are N ':' V, where N is prefix '.' name for a
\* non-empty prefix of the Client at the call and the name otherwise, and V
\* is value '|@' rate for rate < 1 and the value otherwise; a line sent ends
\* with the rate suffix if and only if rate < 1.
C4_LineFormat ==
    [][(IsMetric(last') /\ last'.sends >= 1) =>
          LET pfx == Str(client.prefix)
              sfx == <<"|", "@">> \o FmtF(last'.rate, RateDen)
              N == IF pfx # <<>> THEN pfx \o <<".">> \o last'.stat ELSE last'.stat
              V == IF last'.rate < RateDen THEN last'.value \o sfx ELSE last'.value
          IN  /\ last'.data = N \o <<":">> \o V
              /\ EndsWith(last'.data, sfx) <=> last'.rate < RateDen]_vars

\* C4 witness: Inc("h", 5, 0.5) on a Client with prefix "a" sent
\* "a.h:5|c|@0.500000".
C4_Witness ==
    /\ last.op = "Inc"
    /\ last.sends = 1
    /\ last.data = <<"a", ".", "h", ":", "5", "|", "c", "|", "@",
                     "0", ".", "5", "0", "0", "0", "0", "0">>

\* C5: a metric call on a Client returns an error if and only if it invoked
\* Send and Send returned an error, and then it returns that error; a
\* sampled-out call returns no error.
C5_ErrorIsSendError ==
    (IsMetric(last) /\ ~last.recvNil) =>
        /\ last.ret # Nil <=> (last.sends = 1 /\ last.send.err # Nil)
        /\ (last.ret # Nil => last.ret = last.send.err)
        /\ (last.sends = 0 => last.ret = Nil)

\* C5 witness: a call returned the error of the operating system's write.
C5_Witness ==
    /\ IsMetric(last)
    /\ last.sends = 1
    /\ last.send.err = ErrWrite
    /\ last.ret = ErrWrite

\* C6: a metric call leaves the Client (prefix and sender) and the sockets as
\* they were, whether or not its Send fails; after a failed Send the next
\* call still sends once if selected, and returns no error if that Send
\* returns none.
C6_FailureLeavesClientUsable ==
    [][(IsMetric(last') /\ ~last'.recvNil) =>
          /\ client' = client
          /\ conns' = conns
          /\ (failed => last'.sends = (IF Selected(last') THEN 1 ELSE 0))
          /\ (failed /\ last'.sends = 1 /\ last'.send.err = Nil => last'.ret = Nil)
          /\ (failed /\ last'.sends = 1 /\ last'.w.err = Nil /\ last'.w.n > 0
                => last'.ret = Nil)]_vars

\* C6 witness: after a Send of this Client failed, a call sent once and
\* returned no error.
C6_Witness ==
    /\ failed
    /\ IsMetric(last)
    /\ last.sends = 1
    /\ last.ret = Nil

\* C7: the name segment of a line sent is built from the prefix of the latest
\* SetPrefix that returned before the call (the constructor's if none);
\* SetPrefix sends nothing, closes nothing, stores its argument as the
\* prefix and leaves the sender and the sockets as they were.
C7_PrefixOfLatestSetPrefix ==
    [][/\ (IsMetric(last') /\ last'.sends >= 1) =>
              NameSeg(last'.data) =
                  (IF lastSet.prefix # <<>>
                   THEN lastSet.prefix \o <<".">> \o last'.stat
                   ELSE last'.stat)
       /\ (last'.op = "SetPrefix" /\ ~last'.recvNil) =>
              /\ last'.sends = 0
              /\ last'.closes = 0
              /\ last'.ret = Nil
              /\ Str(client'.prefix) = last'.prefix
              /\ client'.sender = client.sender
              /\ client'.isNil = client.isNil
              /\ conns' = conns]_vars

\* C7 witness: a line was sent under the prefix "bc" that a SetPrefix stored.
C7_Witness ==
    /\ IsMetric(last)
    /\ last.sends = 1
    /\ lastSet = [prefix |-> <<"b", "c">>, by |-> "SetPrefix"]
    /\ NameSeg(last.data) = <<"b", "c", ".", "h">>

\* C8: Send returns an error if and only if its write returned an error or
\* wrote zero bytes; on the write's error it returns that error and 0, on a
\* write of zero bytes an error and 0, otherwise no error and the positive
\* number of bytes written; it writes once.
C8_SendResult ==
    (last.sends >= 1) =>
        /\ last.send.writes = 1
        /\ last.send.err # Nil <=> (last.w.err # Nil \/ last.w.n = 0)
        /\ (last.w.err # Nil => last.send.err = last.w.err /\ last.send.n = 0)
        /\ (last.w.err = Nil /\ last.w.n = 0 => last.send.err # Nil /\ last.send.n = 0)
        /\ (last.w.err = Nil /\ last.w.n # 0 =>
              last.send.err = Nil /\ last.send.n = last.w.n /\ last.send.n > 0)

\* C8 witness: a write of zero bytes without an error made Send fail.
C8_Witness ==
    /\ last.sends = 1
    /\ last.w = [n |-> 0, err |-> Nil]
    /\ last.send.err = ErrNoBytes
    /\ last.send.n = 0

\* C9 (as claimed): the value Dec(name, v, rate) transmits is the arithmetic
\* negation of v, as a counter value.
C9_DecSendsNegation ==
    (last.op = "Dec" /\ last.sends = 1) =>
        LET want == FmtD(0 - last.arg) \o <<"|", "c">>
        IN  SubSeq(ValueSeg(last.data), 1, Len(want)) = want

\* C10 (as claimed): with SetPrefix racing Raw, the name segment of every
\* line sent is the bare name, or p '.' name for a non-empty p that was the
\* Client's prefix at some moment of the call; '.' name is never sent.
C10_WellFormedNameSegment ==
    (IsMetric(last) /\ last.sends = 1) =>
        LET seg == NameSeg(last.data)
        IN  /\ \/ seg = last.stat
               \/ \E p \in last.seen : p # <<>> /\ seg = p \o <<".">> \o last.stat
            /\ seg # <<".">> \o last.stat

====
